---- MODULE Spec2Model ----
(***************************************************************************)
(* github-fork-repos (codekit/cli/github_fork_repos.py): fork the          *)
(* repositories of a source GitHub organization that belong to the teams   *)
(* named with --team into a destination organization and, with             *)
(* --copy-teams, recreate the teams there.                                 *)
(*                                                                         *)
(* The remote service is part of the state: the source organization's team *)
(* membership, the destination's teams and forks, and a logical clock that *)
(* stands for both datetime.now() and the service's created_at stamps.     *)
(* A team name is a sequence of characters, so that Python's `a in b` on   *)
(* two strings (a substring test) differs from `a in list` (membership).   *)
(*                                                                         *)
(* What is taken as given:                                                 *)
(*  - the calls that only read (get_teams, get_repos) succeed, and the two *)
(*    organizations change only through this tool while it runs;           *)
(*    create_fork and create_team may fail at any call;                    *)
(*  - datetime.now() and the service's created_at are read off one clock;  *)
(*  - --team is required (parse_args), so the else branch of main at lines *)
(*    213-214 is never taken;                                              *)
(*  - an uncaught exception ends the process with exit code 1.             *)
(***************************************************************************)
EXTENDS Integers, Sequences, FiniteSets, TLC

\* ------------------------------------------------------------- universe

SrcOrg == "A"
DstOrg == "B"

\* repository names of the source organization, in the service's listing order
RepoOrder == <<"x", "y", "z">>
Repos == {RepoOrder[i] : i \in 1..Len(RepoOrder)}

\* team names; the first is a substring of the second
T == <<"t">>
T1 == <<"t", "1">>
TeamNames == {T, T1}

\* largest --limit value tried (the selection holds at most Len(RepoOrder))
MaxLimit == 2
\* how many times the tool is run against the same pair of organizations
MaxRuns == 2

\* --limit: <<>> is None (no --limit), <<n>> is the integer n (type=int)
Limits == {<<>>} \cup {<<n>> : n \in (-1)..MaxLimit}

VARIABLES
    teamsOf,        \* source org: repository name -> set of its team names
    teamOrder,      \* the order in which the service lists teams
    args,           \* parse_args(): [team, limit, copy_teams]
    dstTeams,       \* destination org: team name -> set of member repos
    dstTeams0,      \* the destination's teams when this run started
    dstForks,       \* destination org: repository name -> created_at
    clock,          \* logical time
    run,            \* number of the current run of main()
    pc,             \* where main() is
    selection,      \* everything the generator `repos` yields
    src_repos,      \* main: src_repos
    src_rt,         \* main: src_rt
    src_teams,      \* main: src_teams, the team-usage index
    conflicting_teams,
    repo_idx,       \* create_forks: repo_idx
    forked,         \* create_forks: the forks returned in this run
    warnings,       \* create_forks: the repositories warned about
    ct_args,        \* create_teams: [with_repos, ignore_existing]
    ct,             \* create_teams: what the call did
    stages,         \* the stages this run has entered, in order
    calls,          \* the remote calls issued in this run, in order
    exit_code,      \* -1 while running
    exc,            \* the exception that ended the run
    prev            \* what the previous run left behind

vars == <<teamsOf, teamOrder, args, dstTeams, dstTeams0, dstForks, clock, run, pc,
          selection, src_repos, src_rt, src_teams, conflicting_teams,
          repo_idx, forked, warnings, ct_args, ct, stages, calls, exit_code,
          exc, prev>>

\* ------------------------------------------------------------- helpers

Range(s) == {s[i] : i \in 1..Len(s)}

Min(a, b) == IF a < b THEN a ELSE b

\* the permutations of a finite set, as sequences
Perms(S) ==
    {s \in [1..Cardinality(S) -> S] : \A i, j \in 1..Cardinality(S) : s[i] = s[j] => i = j}

\* Python `a in b` for two str: a is a substring of b
StrIn(a, b) ==
    \E i \in 0..(Len(b) - Len(a)) : SubSeq(b, i + 1, i + Len(a)) = a

\* a repository object: its organization and its name (full_name is org/name)
Repo(org, name) == <<org, name>>

\* --------------------------------------------------- the remote service

\* org.get_teams() on the source organization: every team, in listing order
src_get_teams == teamOrder

\* team.get_repos(): the team's repositories, in listing order
team_get_repos(t) == SelectSeq(RepoOrder, LAMBDA r : t \in teamsOf[r])

\* repo.get_teams(): the teams a source repository belongs to
repo_get_teams(r) == SelectSeq(teamOrder, LAMBDA t : t \in teamsOf[r])

\* org.get_teams() on the destination organization
dst_get_teams(org) == SelectSeq(teamOrder, LAMBDA t : t \in DOMAIN org)

\* ------------------------------------------------------------ selection

\* main: fork_teams = [t for t in src_org.get_teams() if t.name in args.team]
\* variant: the filter on t.name is dropped
AllTeams(team) == src_get_teams
fork_teams(team) == SelectSeq(src_get_teams, LAMBDA t : t \in team)

\* append to acc the elements of s that acc does not hold yet
RECURSIVE AppendNew(_, _)
AppendNew(acc, s) ==
    IF s = <<>> THEN acc
    ELSE AppendNew(IF Head(s) \in Range(acc) THEN acc ELSE Append(acc, Head(s)),
                   Tail(s))

\* pygithub.get_repos_by_team(teams): the deduplicated union of the teams'
\* repositories, in enumeration order
RECURSIVE get_repos_by_team(_)
get_repos_by_team(teams) ==
    IF teams = <<>> THEN <<>>
    ELSE AppendNew(team_get_repos(Head(teams)),
                   get_repos_by_team(Tail(teams)))

\* itertools.islice(repos, limit) raises ValueError on a negative stop
islice_raises(limit) == limit # <<>> /\ limit[1] < 0

RECURSIVE Take(_, _)
Take(s, n) ==
    IF n = 0 \/ s = <<>> THEN <<>>
    ELSE <<Head(s)>> \o Take(Tail(s), n - 1)

\* variant: stops one element late
isliceOffByOne(s, limit) == IF limit = <<>> THEN s ELSE Take(s, limit[1] + 1)
\* list(itertools.islice(repos, limit)), limit None or >= 0
islice(s, limit) == IF limit = <<>> THEN s ELSE Take(s, limit[1])

\* ------------------------------------------------- the team-usage index

\* d[k] = v on a dict kept as a sequence of entries in insertion order
RECURSIVE DictSet(_, _, _)
DictSet(d, k, e) ==
    IF d = <<>> THEN <<e>>
    ELSE IF Head(d).key = k THEN <<e>> \o Tail(d)
    ELSE <<Head(d)>> \o DictSet(Tail(d), k, e)

DictKeys(d) == [i \in 1..Len(d) |-> d[i].key]

\* find_teams_by_repos: src_rt[r.full_name] = {'repo': r, 'teams': teams}
RECURSIVE find_teams_by_repos_from(_, _)
find_teams_by_repos_from(src_rt0, repos) ==
    IF repos = <<>> THEN src_rt0
    ELSE LET r == Head(repos)
             k == Repo(SrcOrg, r)
         IN find_teams_by_repos_from(
                DictSet(src_rt0, k, [key |-> k, repo |-> r, teams |-> repo_get_teams(r)]),
                Tail(repos))

find_teams_by_repos(repos) == find_teams_by_repos_from(<<>>, repos)

\* variant: the else branch assigns instead of appending
UsedTeamsAddOverwrite(used, name, repo) ==
    DictSet(used, name, [key |-> name, repos |-> <<repo>>])
\* find_used_teams: add one repository under one team name
UsedTeamsAdd(used, name, repo) ==
    IF name \notin Range(DictKeys(used))
    THEN Append(used, [key |-> name, repos |-> <<repo>>])
    ELSE [i \in 1..Len(used) |->
            IF used[i].key = name
            THEN [used[i] EXCEPT !.repos = Append(@, repo)]
            ELSE used[i]]

\* find_used_teams, inner loop: one repository's team names
RECURSIVE UsedTeamsOfRepo(_, _, _)
UsedTeamsOfRepo(used, names, repo) ==
    IF names = <<>> THEN used
    ELSE UsedTeamsOfRepo(UsedTeamsAdd(used, Head(names), repo), Tail(names), repo)

\* find_used_teams: team name -> the repositories of src_rt in that team
RECURSIVE find_used_teams_from(_, _)
find_used_teams_from(used, rt) ==
    IF rt = <<>> THEN used
    ELSE find_used_teams_from(UsedTeamsOfRepo(used, Head(rt).teams, Head(rt).repo),
                              Tail(rt))

find_used_teams(rt) == find_used_teams_from(<<>>, rt)

\* variant: no name is ever reported
NoConflicts(index, dst_team_names) == <<>>
\* main: the names of src_teams that are in dst_team_names
conflicts(index, dst_team_names) ==
    SelectSeq(DictKeys(index), LAMBDA n : n \in Range(dst_team_names))

\* ---------------------------------------------------------- create_teams

Call(op, arg) == [op |-> op, arg |-> arg]

\* str.format(**kwargs) raises KeyError when the string names a field that
\* is not among the keyword arguments
format_raises(fields, kwargs) == ~(fields \subseteq kwargs)

\* create_teams: "creating team {o}/'{t}'".format(org=org.login, t=name)
CreatingTeamFields == {"o", "t"}
CreatingTeamKwargs == {"org", "t"}

NameTaken == "Name has already been taken"
\* the sub-errors of a GithubException that is not about the name
OtherErrors == <<"Validation Failed">>

\* org.create_team(name, repo_names): the sub-errors of the GithubException it
\* raises, <<>> when it creates the team; `fails` is the service failing
create_team_errors(org, name, fails) ==
    IF name \in DOMAIN org THEN <<NameTaken>>
    ELSE IF fails THEN OtherErrors
    ELSE <<>>

\* create_teams, except clause: whether the loop over e.data['errors'] raises e
except_raises(errors, ignore_existing) ==
    \E i \in 1..Len(errors) : ~(ignore_existing /\ errors[i] = NameTaken)

\* create_teams: next(t for t in org.get_teams() if t.name in name);
\* <<>> stands for StopIteration
lookup_existing(org, name) ==
    LET found == SelectSeq(dst_get_teams(org), LAMBDA t : StrIn(t, name))
    IN IF found = <<>> THEN <<>> ELSE <<Head(found)>>

\* create_teams, one iteration of `for name, repos in teams.items()`;
\* st is [outcome, org, dst_teams, recorded, calls, n]
create_teams_step(st, entry, with_repos, ignore_existing, failAt) ==
    LET name == entry.key
        dst_repo_names == {Repo(DstOrg, entry.repos[i]) : i \in 1..Len(entry.repos)}
        members == IF with_repos THEN dst_repo_names ELSE {}
        errors == create_team_errors(st.org, name, st.n + 1 = failAt)
        issued == Append(st.calls, Call("create_team", name))
        found == lookup_existing(st.org, name)
    IN IF format_raises(CreatingTeamFields, CreatingTeamKwargs)
       THEN [st EXCEPT !.outcome = "KeyError"]
       ELSE IF errors = <<>>
       THEN [st EXCEPT !.org = [t \in DOMAIN st.org \cup {name} |->
                                    IF t = name THEN members ELSE st.org[t]],
                       !.dst_teams = DictSet(@, name, [key |-> name]),
                       !.recorded = Append(@, [name |-> name, team |-> name]),
                       !.calls = issued,
                       !.n = @ + 1]
       ELSE IF except_raises(errors, ignore_existing)
       THEN [st EXCEPT !.outcome = "GithubException", !.calls = issued, !.n = @ + 1]
       ELSE IF found = <<>>
       THEN [st EXCEPT !.outcome = "StopIteration",
                       !.calls = Append(issued, Call("dst.get_teams", <<>>)),
                       !.n = @ + 1]
       ELSE [st EXCEPT !.dst_teams = DictSet(@, found[1], [key |-> found[1]]),
                       !.recorded = Append(@, [name |-> name, team |-> found[1]]),
                       !.calls = Append(issued, Call("dst.get_teams", <<>>)),
                       !.n = @ + 1]

RECURSIVE create_teams_loop(_, _, _, _, _)
create_teams_loop(st, teams, with_repos, ignore_existing, failAt) ==
    IF teams = <<>> \/ st.outcome # "returned" THEN st
    ELSE create_teams_loop(
             create_teams_step(st, Head(teams), with_repos, ignore_existing, failAt),
             Tail(teams), with_repos, ignore_existing, failAt)

\* create_teams(org, teams, with_repos, ignore_existing); failAt is the
\* create_team call at which the service fails (0: at none)
create_teams(org, teams, with_repos, ignore_existing, failAt) ==
    create_teams_loop([outcome |-> "returned", org |-> org, dst_teams |-> <<>>,
                       recorded |-> <<>>, calls |-> <<>>, n |-> 0],
                      teams, with_repos, ignore_existing, failAt)

\* ------------------------------------------------------------- the run

NoForks == [r \in {} |-> 0]
NoCt == [outcome |-> "none", dst_teams |-> <<>>, recorded |-> <<>>]
NoPrev == [ran |-> FALSE, forks |-> {}, forked_all |-> FALSE]

\* the state main() starts from
RunStart ==
    /\ pc = "select"
    /\ selection = <<>>
    /\ src_repos = <<>>
    /\ src_rt = <<>>
    /\ src_teams = <<>>
    /\ conflicting_teams = <<>>
    /\ repo_idx = 0
    /\ forked = <<>>
    /\ warnings = <<>>
    /\ ct_args = [with_repos |-> FALSE, ignore_existing |-> FALSE]
    /\ ct = NoCt
    /\ stages = <<>>
    /\ calls = <<>>
    /\ exit_code = -1
    /\ exc = "none"

Init ==
    /\ teamsOf \in [Repos -> SUBSET TeamNames]
    /\ teamOrder \in Perms(TeamNames)
    /\ args \in [team : (SUBSET TeamNames) \ {{}},
                 limit : Limits,
                 copy_teams : BOOLEAN]
    /\ dstTeams \in {[t \in S |-> {}] : S \in SUBSET TeamNames}
    /\ dstTeams0 = dstTeams
    /\ dstForks = NoForks
    /\ clock = 1
    /\ run = 1
    /\ prev = NoPrev
    /\ RunStart

\* sys.exit(code), or an uncaught exception (exit code 1)
Exit(code, e) ==
    /\ pc' = "done"
    /\ exit_code' = code
    /\ exc' = e

Running(next) ==
    /\ pc' = next
    /\ UNCHANGED <<exit_code, exc>>

\* variant: the guard is always taken
AlwaysCopyTeams == TRUE
\* main: if args.copy_teams (the capture and conflict check, and create_teams)
copy_teams == args.copy_teams

\* main, lines 207-227: select the repositories
Select ==
    /\ pc = "select"
    /\ stages' = Append(stages, "SELECT")
    /\ calls' = calls \o <<Call("src.get_teams", <<>>)>>
                      \o <<Call("src.get_teams", <<>>)>>
    /\ selection' = get_repos_by_team(fork_teams(args.team))
    /\ IF islice_raises(args.limit)
       THEN /\ src_repos' = <<>>
            /\ Exit(1, "ValueError")
       ELSE /\ src_repos' = islice(selection', args.limit)
            /\ IF Len(src_repos') = 0
               THEN Exit(0, "none")
               ELSE Running(IF copy_teams THEN "capture" ELSE "fork")
    /\ UNCHANGED <<teamsOf, teamOrder, args, dstTeams, dstTeams0, dstForks, clock, run,
                   src_rt, src_teams, conflicting_teams, repo_idx, forked,
                   warnings, ct_args, ct, prev>>

\* main, lines 229-242: capture the team membership of the selection
CaptureTeams ==
    /\ pc = "capture"
    /\ stages' = Append(stages, "CAPTURE_TEAMS")
    /\ calls' = calls \o [i \in 1..Len(src_repos) |->
                            Call("repo.get_teams", Repo(SrcOrg, src_repos[i]))]
    /\ src_rt' = find_teams_by_repos(src_repos)
    /\ src_teams' = find_used_teams(src_rt')
    /\ Running("check")
    /\ UNCHANGED <<teamsOf, teamOrder, args, dstTeams, dstTeams0, dstForks, clock, run,
                   selection, src_repos, conflicting_teams, repo_idx, forked,
                   warnings, ct_args, ct, prev>>

\* main, lines 244-261: the conflict check
CheckConflicts ==
    /\ pc = "check"
    /\ stages' = Append(stages, "CHECK_CONFLICTS")
    /\ calls' = Append(calls, Call("dst.get_teams", <<>>))
    /\ conflicting_teams' = conflicts(src_teams, dst_get_teams(dstTeams))
    /\ IF conflicting_teams' # <<>>
       THEN Exit(1, "SystemExit")
       ELSE Running("fork")
    /\ UNCHANGED <<teamsOf, teamOrder, args, dstTeams, dstTeams0, dstForks, clock, run,
                   selection, src_repos, src_rt, src_teams, repo_idx, forked,
                   warnings, ct_args, ct, prev>>

\* variant: the comparison never holds
WarnNever(created_at, now) == FALSE
\* create_forks: if fork.created_at < now
fork_already_exists(created_at, now) == created_at < now

\* main: what follows create_forks(dst_org, src_repos) returning
AfterForks ==
    IF copy_teams THEN Running("teams") ELSE Exit(0, "none")

\* variant: the exception is caught and the loop goes on
ForkFailureSwallowed ==
    /\ repo_idx' = repo_idx + 1
    /\ IF repo_idx' = Len(src_repos) THEN AfterForks ELSE Running("fork")
\* create_fork raising GithubException: nothing catches it
ForkFailure ==
    /\ repo_idx' = repo_idx
    /\ Exit(1, "GithubException")

\* create_forks, lines 174-188: one iteration of `for r in src_repos`, and
\* after the last one the rest of main
ForkOne ==
    /\ pc = "fork"
    /\ repo_idx < Len(src_repos)
    /\ LET r == src_repos[repo_idx + 1]
           now == clock
           existed == r \in DOMAIN dstForks
           created_at == IF existed THEN dstForks[r] ELSE now
       IN /\ stages' = IF repo_idx = 0 THEN Append(stages, "FORK_ALL") ELSE stages
          /\ calls' = Append(calls, Call("create_fork", Repo(SrcOrg, r)))
          /\ clock' = clock + 1
          /\ \/ /\ dstForks' = [n \in DOMAIN dstForks \cup {r} |->
                                  IF n = r THEN created_at ELSE dstForks[n]]
                /\ forked' = Append(forked, [repo |-> r, created_at |-> created_at,
                                             now |-> now])
                /\ warnings' = IF fork_already_exists(created_at, now)
                               THEN Append(warnings, r)
                               ELSE warnings
                /\ repo_idx' = repo_idx + 1
                /\ IF repo_idx' = Len(src_repos) THEN AfterForks ELSE Running("fork")
             \/ /\ ForkFailure
                /\ UNCHANGED <<dstForks, forked, warnings>>
    /\ UNCHANGED <<teamsOf, teamOrder, args, dstTeams, dstTeams0, run, selection, src_repos,
                   src_rt, src_teams, conflicting_teams, ct_args, ct, prev>>

\* the create_team calls at which the service may fail
FailAts == 0..Len(src_teams)

\* main, line 267, and create_teams, lines 112-155
CreateTeams ==
    /\ pc = "teams"
    /\ stages' = Append(stages, "CREATE_TEAMS")
    /\ \E failAt \in FailAts :
         LET res == create_teams(dstTeams, src_teams, ct_args.with_repos,
                                 ct_args.ignore_existing, failAt)
         IN /\ dstTeams' = res.org
            /\ ct' = [outcome |-> res.outcome, dst_teams |-> res.dst_teams,
                      recorded |-> res.recorded]
            /\ calls' = calls \o res.calls
            /\ IF res.outcome = "returned"
               THEN Exit(0, "none")
               ELSE Exit(1, res.outcome)
    /\ UNCHANGED <<teamsOf, teamOrder, args, dstTeams0, dstForks, clock, run, selection,
                   src_repos, src_rt, src_teams, conflicting_teams, repo_idx,
                   forked, warnings, ct_args, prev>>

\* the operator runs the tool again with the same arguments
Rerun ==
    /\ pc = "done"
    /\ run < MaxRuns
    /\ run' = run + 1
    /\ clock' = clock + 1
    /\ prev' = [ran |-> TRUE,
                forks |-> DOMAIN dstForks,
                forked_all |-> (src_repos # <<>> /\ Len(forked) = Len(src_repos))]
    /\ pc' = "select"
    /\ selection' = <<>>
    /\ src_repos' = <<>>
    /\ src_rt' = <<>>
    /\ src_teams' = <<>>
    /\ conflicting_teams' = <<>>
    /\ repo_idx' = 0
    /\ forked' = <<>>
    /\ warnings' = <<>>
    /\ ct_args' = [with_repos |-> FALSE, ignore_existing |-> FALSE]
    /\ ct' = NoCt
    /\ stages' = <<>>
    /\ calls' = <<>>
    /\ exit_code' = -1
    /\ exc' = "none"
    /\ dstTeams0' = dstTeams
    /\ UNCHANGED <<teamsOf, teamOrder, args, dstTeams, dstForks>>

Next ==
    \/ Select
    \/ CaptureTeams
    \/ CheckConflicts
    \/ ForkOne
    \/ CreateTeams
    \/ Rerun

Spec == Init /\ [][Next]_vars

\* ------------------------------------------- create_teams called directly

\* create_teams called with any flags on a destination that may hold teams,
\* after the repositories of the index were forked
InitCreateTeams ==
    /\ teamsOf \in [Repos -> SUBSET TeamNames]
    /\ teamOrder \in Perms(TeamNames)
    /\ args = [team |-> TeamNames, limit |-> <<>>, copy_teams |-> TRUE]
    /\ dstTeams \in {[t \in S |-> {}] : S \in SUBSET TeamNames}
    /\ dstTeams0 = dstTeams
    /\ dstForks = [r \in Repos |-> 1]
    /\ clock = 2
    /\ run = 1
    /\ prev = NoPrev
    /\ pc = "teams"
    /\ selection = RepoOrder
    /\ src_repos = RepoOrder
    /\ src_rt = find_teams_by_repos(src_repos)
    /\ src_teams = find_used_teams(src_rt)
    /\ conflicting_teams = <<>>
    /\ repo_idx = Len(src_repos)
    /\ forked = <<>>
    /\ warnings = <<>>
    /\ ct_args \in [with_repos : BOOLEAN, ignore_existing : BOOLEAN]
    /\ ct = NoCt
    /\ stages = <<>>
    /\ calls = <<>>
    /\ exit_code = -1
    /\ exc = "none"

NextCreateTeams == CreateTeams

SpecCreateTeams == InitCreateTeams /\ [][NextCreateTeams]_vars

\* -------------------------------------------------------------- claims

NoDup(s) == \A i, j \in 1..Len(s) : s[i] = s[j] => i = j

CallsOf(op) == SelectSeq(calls, LAMBDA c : c.op = op)

Entered(stage) == stage \in Range(stages)

\* the repositories that belong to at least one team named with --team
InFilteredTeam == {r \in Repos : teamsOf[r] \cap args.team # {}}

\* the teams that at least one repository of the list belongs to
TeamsUsedBy(repos) == {t \in TeamNames : \E r \in Range(repos) : t \in teamsOf[r]}

\* the repositories of the list that are members of team t
MembersIn(repos, t) == {r \in Range(repos) : t \in teamsOf[r]}

\* C1: in a --copy-teams run whose team-usage index shares a name with the
\* destination's teams, the run goes no further than the conflict check,
\* ends with exit code 1, and issues no create-fork and no create-team call.
C1_ConflictStopsBeforeForks ==
    (args.copy_teams /\ TeamsUsedBy(src_repos) \cap DOMAIN dstTeams0 # {}) =>
        /\ pc \in {"capture", "check", "done"}
        /\ pc = "done" => exit_code = 1
        /\ CallsOf("create_fork") = <<>>
        /\ CallsOf("create_team") = <<>>
        /\ dstForks = NoForks

C1_Witness ==
    /\ args.copy_teams
    /\ TeamsUsedBy(src_repos) \cap DOMAIN dstTeams0 # {}
    /\ pc = "done"
    /\ exit_code = 1
    /\ conflicting_teams # <<>>

\* C2: once the selection is made, the repositories selected before --limit
\* are exactly those in at least one team named with --team, each once.
C2_SelectionIsFilteredUnion ==
    Entered("SELECT") =>
        /\ Range(selection) = InFilteredTeam
        /\ NoDup(selection)

C2_Witness ==
    /\ Entered("SELECT")
    /\ \E r \in Range(selection) : Cardinality(teamsOf[r] \cap args.team) = 2
    /\ \E r \in Repos : r \notin Range(selection)
    /\ Len(selection) = 2

\* C3: with --limit N the forked list is the first min(N, size) repositories
\* of the unlimited selection, in order, and the whole selection without
\* --limit; the forks requested and the index are taken from that list.
C3_LimitIsPrefix ==
    /\ (Entered("SELECT") /\ exc # "ValueError") =>
          src_repos = IF args.limit = <<>> THEN selection
                      ELSE SubSeq(selection, 1, Min(args.limit[1], Len(selection)))
    /\ LET forks == CallsOf("create_fork")
       IN /\ Len(forks) <= Len(src_repos)
          /\ \A i \in 1..Len(forks) : forks[i].arg = Repo(SrcOrg, src_repos[i])
    /\ Entered("CAPTURE_TEAMS") =>
          DictKeys(src_rt) = [i \in 1..Len(src_repos) |-> Repo(SrcOrg, src_repos[i])]

C3_Witness ==
    /\ args.limit = <<2>>
    /\ Len(selection) = 3
    /\ pc = "done"
    /\ exit_code = 0
    /\ Len(forked) = 2

\* C4: a --copy-teams run against a destination without conflicting teams,
\* in which no remote call fails, ends with exit code 0 and leaves every team
\* of the usage index in the destination with exactly the forks of its
\* repositories as members.
C4_TeamsRecreatedWithMembers ==
    (/\ args.copy_teams
     /\ pc = "done"
     /\ src_repos # <<>>
     /\ conflicting_teams = <<>>
     /\ exc # "GithubException") =>
        /\ exit_code = 0
        /\ \A i \in 1..Len(src_teams) :
             /\ src_teams[i].key \in DOMAIN dstTeams
             /\ dstTeams[src_teams[i].key] =
                  {Repo(DstOrg, r) : r \in Range(src_teams[i].repos)}

\* C5: a fork that was created before the request yields one warning and no
\* error, and create_forks goes on to the next repository; a second complete
\* fork step leaves the destination's forks as the first left them.
C5_ExistingForkWarnsAndContinues ==
    /\ \A i \in 1..Len(forked) :
          forked[i].created_at < forked[i].now =>
              Len(SelectSeq(warnings, LAMBDA w : w = forked[i].repo)) = 1
    /\ repo_idx = Len(forked)
    /\ Len(CallsOf("create_fork")) =
          Len(forked) + (IF exc = "GithubException" /\ ~Entered("CREATE_TEAMS")
                         THEN 1 ELSE 0)
    /\ (prev.ran /\ prev.forked_all /\ Entered("FORK_ALL")) =>
          /\ DOMAIN dstForks = prev.forks
          /\ warnings = [i \in 1..Len(forked) |-> forked[i].repo]

C5_Witness ==
    /\ run = 2
    /\ prev.forked_all
    /\ pc = "done"
    /\ exit_code = 0
    /\ Len(warnings) = Len(src_repos)
    /\ Len(src_repos) >= 2

AllowedStages ==
    IF args.copy_teams
    THEN <<"SELECT", "CAPTURE_TEAMS", "CHECK_CONFLICTS", "FORK_ALL", "CREATE_TEAMS">>
    ELSE <<"SELECT", "FORK_ALL">>

\* C6: the stages are entered in order, each only after the earlier ones
\* succeeded: create_teams is entered, and a create-team call issued, only
\* after every create-fork call returned; a failing create-fork call ends the
\* run with no create-team call, and the forks made before it remain.
C6_StagesInOrder ==
    /\ Len(stages) <= Len(AllowedStages)
    /\ stages = SubSeq(AllowedStages, 1, Len(stages))
    /\ (args.copy_teams /\ Entered("FORK_ALL")) => conflicting_teams = <<>>
    /\ (Entered("CREATE_TEAMS") \/ CallsOf("create_team") # <<>>) =>
          /\ Len(forked) = Len(src_repos)
          /\ Len(CallsOf("create_fork")) = Len(src_repos)
    /\ Len(CallsOf("create_fork")) > Len(forked) =>
          /\ pc = "done"
          /\ exit_code = 1
          /\ ~Entered("CREATE_TEAMS")
          /\ CallsOf("create_team") = <<>>
    /\ \A i \in 1..Len(forked) : forked[i].repo \in DOMAIN dstForks

C6_Witness ==
    /\ args.copy_teams
    /\ exc = "GithubException"
    /\ Len(forked) >= 1
    /\ Len(CallsOf("create_fork")) = Len(forked) + 1
    /\ pc = "done"

\* C7: every remote call is attempted exactly once per run: the source
\* organization's team list is enumerated once, and a run that ends with exit
\* code 0 has issued one create-fork call per selected repository and one
\* create-team call per team name of the usage index.
C7_EachCallOnce ==
    /\ Entered("SELECT") => Len(CallsOf("src.get_teams")) = 1
    /\ NoDup(CallsOf("create_fork"))
    /\ NoDup(CallsOf("create_team"))
    /\ (pc = "done" /\ exit_code = 0) =>
          /\ Len(CallsOf("create_fork")) = Len(src_repos)
          /\ Len(CallsOf("create_team")) = Len(src_teams)

\* C8: create_teams ends either by returning or by re-raising the creation
\* error; a team recorded for a name is the destination's team with exactly
\* that name; with ignore_existing a name that is already taken is recorded
\* and the loop goes on; teams created before a failure stay.
C8_ExistingTeamReusedOrErrorRaised ==
    pc = "done" =>
        /\ ct.outcome \in {"returned", "GithubException"}
        /\ \A i \in 1..Len(ct.recorded) : ct.recorded[i].team = ct.recorded[i].name
        /\ \A i \in 1..Len(ct.recorded) : ct.recorded[i].team \in DOMAIN dstTeams
        /\ (ct_args.ignore_existing /\ src_teams # <<>>
              /\ src_teams[1].key \in DOMAIN dstTeams0) =>
              /\ ct.recorded # <<>>
              /\ ct.recorded[1].name = src_teams[1].key

\* C9: the team-usage index has as keys exactly the teams that a selected
\* repository belongs to, named with --team or not, each once, and maps each
\* to exactly the selected repositories in that team, each once.
C9_UsageIndex ==
    Entered("CAPTURE_TEAMS") =>
        /\ Range(DictKeys(src_teams)) = TeamsUsedBy(src_repos)
        /\ NoDup(DictKeys(src_teams))
        /\ \A i \in 1..Len(src_teams) :
             /\ Range(src_teams[i].repos) = MembersIn(src_repos, src_teams[i].key)
             /\ NoDup(src_teams[i].repos)

C9_Witness ==
    /\ Entered("CAPTURE_TEAMS")
    /\ \E i \in 1..Len(src_teams) :
         /\ src_teams[i].key \notin args.team
         /\ Len(src_teams[i].repos) >= 2
    /\ Len(src_teams) = 2

\* C10: a run without --copy-teams issues no call that reads or changes the
\* destination's teams, enters neither the capture, the conflict check nor
\* create_teams, leaves the destination's teams as they were, is never ended
\* by a team conflict, and creates forks of selected repositories only.
C10_NoCopyTeamsLeavesTeamsAlone ==
    ~args.copy_teams =>
        /\ CallsOf("repo.get_teams") = <<>>
        /\ CallsOf("dst.get_teams") = <<>>
        /\ CallsOf("create_team") = <<>>
        /\ Range(stages) \subseteq {"SELECT", "FORK_ALL"}
        /\ ct.outcome = "none"
        /\ dstTeams = dstTeams0
        /\ exc \in {"none", "ValueError", "GithubException"}
        /\ (pc = "done" /\ exit_code = 1 /\ exc = "GithubException") =>
              Len(CallsOf("create_fork")) = Len(forked) + 1
        /\ DOMAIN dstForks \subseteq InFilteredTeam

C10_Witness ==
    /\ ~args.copy_teams
    /\ pc = "done"
    /\ exit_code = 0
    /\ forked # <<>>
    /\ TeamsUsedBy(src_repos) \cap DOMAIN dstTeams # {}

====
